---------------------------- MODULE Spec2Model ----------------------------
(***************************************************************************)
(* A model of stellargraph/core/element_data.py: ExternalIdIndex,          *)
(* ElementData, FlatAdjacencyList and the adjacency builders and lazy      *)
(* caches of EdgeData.                                                     *)
(*                                                                         *)
(* Arrays are sequences; an iloc is a 0-based integer, so the array entry  *)
(* of iloc i is the sequence element i + 1.                                *)
(***************************************************************************)
EXTENDS Integers, Sequences, FiniteSets, TLC

VARIABLES
  \* EdgeData: the immutable inputs
  number_of_nodes,   \* len(node_data)
  type_ilocs,        \* node_data.type_ilocs: the type code of every node
  sources,           \* source node iloc of every edge
  targets,           \* target node iloc of every edge
  argsort_ties,      \* how this build of numpy orders equal keys in argsort
  \* EdgeData: the lazily initialised adjacency caches (None or a value)
  _edges_dict,
  _edges_in_dict,
  _edges_out_dict,
  _edges_dict_by_other_node_type,
  _edges_in_dict_by_other_node_type,
  _edges_out_dict_by_other_node_type,
  requested,         \* history: the views the queries made so far asked for
  \* threads querying one EdgeData
  pc,                \* where each thread is in _adj_lookup
  request,           \* the <<ins, outs>> of the call each thread is in
  created,           \* what the thread's _create_* call returned, once it has
  returned,          \* what the thread's _adj_lookup returned, once it has
  \* ExternalIdIndex
  id_index,          \* None before construction, else the index or the error
  id_call,           \* the last call made on the index
  id_result,         \* what that call returned or raised
  \* ElementData
  element,           \* None before construction, else the object or the error
  element_call,      \* the last call made on the element data
  element_result     \* what that call returned or raised

vars == <<number_of_nodes, type_ilocs, sources, targets, argsort_ties,
          _edges_dict, _edges_in_dict, _edges_out_dict,
          _edges_dict_by_other_node_type, _edges_in_dict_by_other_node_type,
          _edges_out_dict_by_other_node_type, requested,
          pc, request, created, returned,
          id_index, id_call, id_result,
          element, element_call, element_result>>
id_vars == <<id_index, id_call, id_result>>
element_vars == <<element, element_call, element_result>>
edge_inputs == <<number_of_nodes, type_ilocs, sources, targets, argsort_ties>>
edge_caches == <<_edges_dict, _edges_in_dict, _edges_out_dict,
                 _edges_dict_by_other_node_type,
                 _edges_in_dict_by_other_node_type,
                 _edges_out_dict_by_other_node_type>>

-----------------------------------------------------------------------------
(* Bounds of the model *)

MaxNodes == 2
MaxEdges == 2
\* the element collections built on their own: ids and type_starts entries
MaxElements == 2
MaxTypes == 2
\* the small id indexes, and the queries made on an index
MaxIds == 2
MaxQuery == 2
\* the graphs of the specifications that follow sequences of requests
MaxLazyNodes == 2
MaxLazyEdges == 1

-----------------------------------------------------------------------------
(* Python values *)

\* None, and a value that is not None, in one comparable shape
None == <<>>
Some(v) == <<v>>
Val(slot) == slot[1]

RECURSIVE SumSeq(_)
SumSeq(s) == IF s = <<>> THEN 0 ELSE Head(s) + SumSeq(Tail(s))

MaxOf(S) == CHOOSE m \in S : \A x \in S : x <= m

Range(s) == {s[k] : k \in 1..Len(s)}

-----------------------------------------------------------------------------
(* numpy *)

\* np.min_scalar_type that keeps the narrower type up to and including 2^bits
min_scalar_type_of_last(n) ==
  IF n <= 2^8 THEN 8
  ELSE IF n <= 2^16 THEN 16
  ELSE 32

\* np.min_scalar_type(n) for n >= 0, as the number of bits of the unsigned type
min_scalar_type(n) ==
  IF n <= 2^8 - 1 THEN 8
  ELSE IF n <= 2^16 - 1 THEN 16
  ELSE 32

\* an array with the elements f[1], ..., f[n], held as a tuple
ndarray(f) == f \o <<>>

\* arr.astype(dtype) / np.cast[dtype](v) for an unsigned dtype of `bits` bits
cast(v, bits) == v % (2^bits)
astype(arr, bits) == ndarray([k \in 1..Len(arr) |-> cast(arr[k], bits)])

\* arr[idx] for an integer index array idx
take(arr, idx) == ndarray([k \in 1..Len(idx) |-> arr[idx[k] + 1]])

\* arr[mask] for a boolean mask of the same length
RECURSIVE compress(_, _)
compress(arr, mask) ==
  IF arr = <<>> THEN <<>>
  ELSE (IF Head(mask) THEN <<Head(arr)>> ELSE <<>>)
         \o compress(Tail(arr), Tail(mask))

\* arr == v, element-wise
eq_mask(arr, v) == ndarray([k \in 1..Len(arr) |-> arr[k] = v])

\* np.unique(arr), as a set
unique(arr) == Range(arr)

\* whether position i comes before position j in the order argsort produces.
\* np.argsort's default kind is quicksort, which is not stable: positions with
\* equal keys come out in an order the build of numpy decides ("ascending"
\* position order, as a stable sort gives, or "descending").  The order is a
\* function of the input: two calls on the same array agree.
sorts_before(arr, ties, i, j) ==
  \/ arr[i] < arr[j]
  \/ /\ arr[i] = arr[j]
     /\ IF ties = "ascending" THEN i < j ELSE i > j

\* np.argsort(arr): the 0-based positions of arr in sorted order
argsort_by(arr, ties) ==
  LET rank == ndarray([i \in 1..Len(arr) |->
                 Cardinality({j \in 1..Len(arr) : sorts_before(arr, ties, j, i)})])
  IN  ndarray([k \in 1..Len(arr) |->
                 (CHOOSE i \in 1..Len(arr) : rank[i] = k - 1) - 1])
argsort(arr) == argsort_by(arr, argsort_ties)

\* arr.sort(): the values in ascending order
sort(arr) == take(arr, argsort(arr))

\* np.bincount(ilocs, minlength=minlength)
bincount(ilocs, minlength) ==
  LET top == IF ilocs = <<>> THEN 0 ELSE MaxOf(Range(ilocs)) + 1
      n   == IF top > minlength THEN top ELSE minlength
  IN  ndarray([k \in 1..n |->
                 Cardinality({p \in 1..Len(ilocs) : ilocs[p] = k - 1})])

\* cumsum that casts the counts and does not accumulate them
cumsum_not_accumulated(counts, bits) == astype(counts, bits)

\* np.cumsum(counts, dtype=dtype)
cumsum(counts, bits) ==
  ndarray([k \in 1..Len(counts) |-> cast(SumSeq(SubSeq(counts, 1, k)), bits)])

-----------------------------------------------------------------------------
(* FlatAdjacencyList *)

FlatAdjacencyList(flat_array, splits) == [flat |-> flat_array, splits |-> splits]

KeyError == [error |-> "KeyError"]
IndexError == [error |-> "IndexError"]
ValueError == [error |-> "ValueError"]

\* the returned slice, as [ilocs |-> ...], or the exception raised
Ilocs(s) == [ilocs |-> s]

\* FlatAdjacencyList.__getitem__
getitem(adj, idx) ==
  IF idx < 0 THEN KeyError
  ELSE IF idx + 2 > Len(adj.splits) THEN IndexError
  ELSE LET start == adj.splits[idx + 1]
           stop  == adj.splits[idx + 2]
       IN  Ilocs(SubSeq(adj.flat, start + 1, stop))

\* FlatAdjacencyList.items, as the function idx |-> self[idx]
items(adj) == [idx \in 0..(Len(adj.splits) - 2) |-> getitem(adj, idx)]

\* _get_splits that counts the first array of the list only
_get_splits_first_only(node_ilocs_list, n_nodes, bits) ==
  <<0>> \o cumsum(bincount(node_ilocs_list[1], n_nodes), bits)

\* _get_splits(node_ilocs_list, number_of_nodes, dtype)
_get_splits(node_ilocs_list, n_nodes, bits) ==
  LET counts == ndarray([i \in 1..Len(node_ilocs_list) |->
                   bincount(node_ilocs_list[i], n_nodes)])
      neigh_counts == ndarray([k \in 1..Len(counts[1]) |->
                         SumSeq([i \in 1..Len(counts) |-> counts[i][k]])])
  IN  <<0>> \o cumsum(neigh_counts, bits)

-----------------------------------------------------------------------------
(* EdgeData: the adjacency builders *)

\* self._id_index.dtype: ExternalIdIndex.__init__ on the edge ids
id_index_dtype == min_scalar_type(Len(sources))

\* _combine_sources_and_targets that leaves the target side of a self-loop
\* in place
_combine_sources_and_targets_unmasked ==
  [combined |-> sources \o targets,
   num_self_loops |->
     Cardinality({e \in 1..Len(targets) : sources[e] = targets[e]})]

\* EdgeData._combine_sources_and_targets
_combine_sources_and_targets ==
  LET num_edges == Len(targets)
      sentinel == cast(-1, min_scalar_type(number_of_nodes))
      self_loops == ndarray([e \in 1..num_edges |-> sources[e] = targets[e]])
      num_self_loops == Cardinality({e \in 1..num_edges : self_loops[e]})
      masked == ndarray([e \in 1..num_edges |->
                   IF self_loops[e] THEN sentinel ELSE targets[e]])
  IN  [combined |-> sources \o masked, num_self_loops |-> num_self_loops]

\* _to_dir_adj_list of EdgeData._create_directed_adj_lists
_to_dir_adj_list(arr) ==
  LET splits == _get_splits(<<arr>>, number_of_nodes, id_index_dtype)
      flat == astype(argsort(arr), id_index_dtype)
  IN  FlatAdjacencyList(flat, splits)

\* _create_directed_adj_lists that returns the pair as (out, in)
_create_directed_adj_lists_swapped ==
  <<_to_dir_adj_list(sources), _to_dir_adj_list(targets)>>

\* EdgeData._create_directed_adj_lists: the pair (in, out)
_create_directed_adj_lists ==
  <<_to_dir_adj_list(targets), _to_dir_adj_list(sources)>>

\* EdgeData._create_undirected_adj_lists
_create_undirected_adj_lists ==
  LET num_edges == Len(targets)
      dtype == min_scalar_type(2 * Len(sources))
      c == _combine_sources_and_targets
      num_self_loops == c.num_self_loops
      sorted_order == astype(argsort(c.combined), dtype)
      sorted_targets == sort(SubSeq(c.combined, num_edges + 1, 2 * num_edges))
      kept == 2 * num_edges - num_self_loops
      trimmed == IF num_self_loops > 0
                   THEN SubSeq(sorted_order, 1, kept) ELSE sorted_order
      filtered_targets ==
        IF num_self_loops > 0
          THEN SubSeq(sorted_targets, 1, num_edges - num_self_loops)
          ELSE sorted_targets
      flat_array == ndarray([k \in 1..Len(trimmed) |-> trimmed[k] % num_edges])
      splits == _get_splits(<<sources, filtered_targets>>, number_of_nodes, dtype)
  IN  FlatAdjacencyList(flat_array, splits)

\* _to_directed_adj_list of EdgeData._create_directed_adj_lists_by_other_node_type:
\* the dict other node type -> FlatAdjacencyList
_to_directed_adj_list(arr, other_node_types) ==
  LET flat == astype(argsort(arr), id_index_dtype)
  IN  [other_node_type \in unique(other_node_types) |->
         LET arr_filtered == compress(arr, eq_mask(other_node_types, other_node_type))
             splits == _get_splits(<<arr_filtered>>, number_of_nodes, id_index_dtype)
             flat_filtered ==
               compress(flat, eq_mask(take(other_node_types, flat), other_node_type))
         IN  FlatAdjacencyList(flat_filtered, splits)]

\* _create_directed_adj_lists_by_other_node_type that partitions by the type
\* of the node itself instead of the other endpoint's
_create_directed_adj_lists_by_own_node_type ==
  <<_to_directed_adj_list(targets, take(type_ilocs, targets)),
    _to_directed_adj_list(sources, take(type_ilocs, sources))>>

\* EdgeData._create_directed_adj_lists_by_other_node_type: the pair (in, out)
_create_directed_adj_lists_by_other_node_type ==
  LET source_types == take(type_ilocs, sources)
      target_types == take(type_ilocs, targets)
  IN  <<_to_directed_adj_list(targets, source_types),
        _to_directed_adj_list(sources, target_types)>>

\* EdgeData._create_undirected_adj_lists_by_other_node_type
_create_undirected_adj_lists_by_other_node_type ==
  LET source_types == take(type_ilocs, sources)
      target_types == take(type_ilocs, targets)
      num_edges == Len(targets)
      dtype == min_scalar_type(2 * Len(sources))
      c == _combine_sources_and_targets
      num_self_loops == c.num_self_loops
      sorted_order == astype(argsort(c.combined), dtype)
      masked_targets == SubSeq(c.combined, num_edges + 1, 2 * num_edges)
      filtered_targets_sort_order == astype(argsort(masked_targets), dtype)
      sorted_targets == take(masked_targets, filtered_targets_sort_order)
      sorted_source_types == take(source_types, filtered_targets_sort_order)
      trimmed == IF num_self_loops > 0
                   THEN SubSeq(sorted_order, 1, 2 * num_edges - num_self_loops)
                   ELSE sorted_order
      filtered_targets ==
        IF num_self_loops > 0
          THEN SubSeq(sorted_targets, 1, num_edges - num_self_loops)
          ELSE sorted_targets
      filtered_source_types ==
        IF num_self_loops > 0
          THEN SubSeq(sorted_source_types, 1, num_edges - num_self_loops)
          ELSE sorted_source_types
      other_node_types == take(target_types \o source_types, trimmed)
      flat_array == ndarray([k \in 1..Len(trimmed) |-> trimmed[k] % num_edges])
  IN  [other_node_type \in unique(other_node_types) |->
         LET sources_filtered ==
               compress(sources, eq_mask(target_types, other_node_type))
             targets_filtered ==
               compress(filtered_targets,
                        eq_mask(filtered_source_types, other_node_type))
             splits == _get_splits(<<sources_filtered, targets_filtered>>,
                                   number_of_nodes, dtype)
             flat_filtered ==
               compress(flat_array, eq_mask(other_node_types, other_node_type))
         IN  FlatAdjacencyList(flat_filtered, splits)]

-----------------------------------------------------------------------------
(* numpy integers of the id index.  TLC's integers stop at 2^31 - 1, and the *)
(* 32-bit sentinel is 2^32 - 1, so an integer x is held as two 16-bit limbs  *)
(* <<hi, lo>> with x = hi * 2^16 + lo and 0 <= lo < 2^16; hi < 0 iff x < 0.  *)

np_int(x) == <<x \div 2^16, x % 2^16>>
np_value(a) == a[1] * 2^16 + a[2]
np_lt(a, b) == a[1] < b[1] \/ (a[1] = b[1] /\ a[2] < b[2])
np_le(a, b) == a = b \/ np_lt(a, b)

\* a.astype(dtype) for an unsigned dtype of `bits` bits (8, 16 or 32)
np_cast(a, bits) ==
  IF bits = 8 THEN <<0, a[2] % 2^8>>
  ELSE IF bits = 16 THEN <<0, a[2]>>
  ELSE <<a[1] % 2^16, a[2]>>
np_astype(arr, bits) == ndarray([k \in 1..Len(arr) |-> np_cast(arr[k], bits)])

-----------------------------------------------------------------------------
(* ExternalIdIndex.  `index` is self._index, the sequence of external ids. *)

\* pd.Index.is_unique
is_unique(ids) == Cardinality(Range(ids)) = Len(ids)

\* ExternalIdIndex.__init__: the object, or the ValueError for duplicated ids
ExternalIdIndex(ids) ==
  IF is_unique(ids)
    THEN [_index |-> ids, dtype |-> min_scalar_type(Len(ids))]
    ELSE ValueError

\* ExternalIdIndex.contains_external
contains_external(self, id) == id \in Range(self._index)

\* ExternalIdIndex.is_valid, for one iloc
is_valid(self, iloc) ==
  np_le(np_int(0), iloc) /\ np_lt(iloc, np_int(Len(self._index)))

\* pd.Index.get_indexer that counts positions from 1
get_indexer_one_based(self, ids) ==
  ndarray([k \in 1..Len(ids) |->
     IF contains_external(self, ids[k])
       THEN np_int(CHOOSE p \in 1..Len(self._index) : self._index[p] = ids[k])
       ELSE np_int(-1)])

\* pd.Index.get_indexer: the position of each id, -1 for an id not indexed
get_indexer(self, ids) ==
  ndarray([k \in 1..Len(ids) |->
     IF contains_external(self, ids[k])
       THEN np_int((CHOOSE p \in 1..Len(self._index) : self._index[p] = ids[k]) - 1)
       ELSE np_int(-1)])

\* ExternalIdIndex.require_valid: None, or the KeyError raised
require_valid(self, query_ids, ilocs) ==
  LET valid == [k \in 1..Len(ilocs) |-> is_valid(self, ilocs[k])]
      missing_values == compress(query_ids, [k \in 1..Len(valid) |-> ~valid[k]])
  IN  IF \A k \in 1..Len(valid) : valid[k] THEN None
      ELSE IF Len(missing_values) = 1
        THEN [error |-> "KeyError", value |-> missing_values[1]]
        ELSE [error |-> "KeyError", values |-> missing_values]

\* ExternalIdIndex.to_iloc: [ilocs |-> the array], or the KeyError raised
to_iloc(self, ids, smaller_type, strict) ==
  LET internal_ids == get_indexer(self, ids)
      checked == IF strict THEN require_valid(self, ids, internal_ids) ELSE None
  IN  IF checked # None THEN checked
      ELSE IF smaller_type THEN Ilocs(np_astype(internal_ids, self.dtype))
      ELSE Ilocs(internal_ids)

\* ExternalIdIndex.from_iloc: self._index.to_numpy()[internal_ids]; numpy
\* counts a negative index from the end and raises IndexError out of range
from_iloc(self, internal_ids) ==
  LET n == Len(self._index)
      in_range(a) == np_le(np_int(-n), a) /\ np_lt(a, np_int(n))
  IN  IF \E k \in 1..Len(internal_ids) : ~in_range(internal_ids[k])
        THEN IndexError
        ELSE [ids |-> [k \in 1..Len(internal_ids) |->
                         self._index[(np_value(internal_ids[k]) % n) + 1]]]

-----------------------------------------------------------------------------
(* ElementData.  type_starts is a sequence of <<type_name, start>>. *)

\* range(start, stop), and len() of it
PyRange(start, stop) == [start |-> start, stop |-> stop]
RangeLen(r) == IF r.stop > r.start THEN r.stop - r.start ELSE 0
InRange(i, r) == r.start <= i /\ i < r.stop

\* ndarray.repeat(sizes)
RECURSIVE repeat(_, _)
repeat(arr, sizes) ==
  IF arr = <<>> THEN <<>>
  ELSE [k \in 1..Head(sizes) |-> Head(arr)] \o repeat(Tail(arr), Tail(sizes))

\* ElementData.__init__: the object, or the TypeError / ValueError raised
ElementData(ids, type_starts) ==
  LET n == Len(type_starts)
      type_stops == Tail(type_starts \o <<<<None, Len(ids)>>>>)
      bad_first == n > 0 /\ type_starts[1][2] # 0
      bad_range(idx) == type_starts[idx][2] > type_stops[idx][2]
      \* the first pair that raises decides the exception
      first_bad == CHOOSE idx \in 1..n :
                     /\ (idx = 1 /\ bad_first) \/ bad_range(idx)
                     /\ \A j \in 1..(idx - 1) : ~((j = 1 /\ bad_first) \/ bad_range(j))
      \* a dict: a later pair with the same name overwrites an earlier one
      last_of(name) == CHOOSE idx \in 1..n :
                         /\ type_starts[idx][1] = name
                         /\ \A j \in (idx + 1)..n : type_starts[j][1] # name
      type_ranges == [name \in {type_starts[idx][1] : idx \in 1..n} |->
                        PyRange(type_starts[last_of(name)][2],
                                type_stops[last_of(name)][2])]
      _id_index == ExternalIdIndex(ids)
      all_types == [idx \in 1..n |-> type_starts[idx][1]]
      type_sizes == [idx \in 1..n |-> RangeLen(type_ranges[all_types[idx]])]
      _type_index == ExternalIdIndex(all_types)
  IN  IF bad_first \/ \E idx \in 1..n : bad_range(idx)
        THEN (IF first_bad = 1 /\ bad_first THEN ValueError
              ELSE [error |-> "TypeError"])
      ELSE IF _id_index = ValueError \/ _type_index = ValueError THEN ValueError
      ELSE [_id_index |-> _id_index,
            _type_index |-> _type_index,
            _type_column |->
              repeat(to_iloc(_type_index, all_types, TRUE, FALSE).ilocs, type_sizes),
            _type_element_ilocs |-> type_ranges]

\* ElementData.__len__
element_len(self) == Len(self._id_index._index)

\* ElementData.type_range: the range, or KeyError for an unknown name
type_range(self, type_name) ==
  IF type_name \in DOMAIN self._type_element_ilocs
    THEN self._type_element_ilocs[type_name]
    ELSE KeyError

\* ElementData.type_of_iloc for one iloc: self._type_column[iloc], resolved
\* through the type index
type_of_iloc(self, id_iloc) ==
  LET n == Len(self._type_column)
  IN  IF id_iloc < -n \/ id_iloc >= n THEN IndexError
      ELSE from_iloc(self._type_index, <<self._type_column[(id_iloc % n) + 1]>>)

-----------------------------------------------------------------------------
(* NodeData.  features is a dict, held as a sequence of <<type_name, data>>  *)
(* in insertion order; data is [ndim |-> the rank, rows |-> the rows of the  *)
(* matrix].  An array of ilocs is [ilocs |-> limbs, dtype |-> None for the   *)
(* signed intp, Some(bits) for the unsigned type of that width].             *)

\* a - n for a limb integer a of a signed type and a Python int n >= 0
np_sub(a, n) ==
  LET lo == a[2] - n
  IN  <<a[1] + (lo \div 2^16), lo % 2^16>>

\* id_ilocs - start: an unsigned array stays in its type and wraps around
subtract(id_ilocs, start) ==
  ndarray([k \in 1..Len(id_ilocs.ilocs) |->
     IF id_ilocs.dtype = None
       THEN np_sub(id_ilocs.ilocs[k], start)
       ELSE np_cast(np_sub(id_ilocs.ilocs[k], start), Val(id_ilocs.dtype))])

\* NodeData.__init__: the object, or the error raised
NodeData(ids, type_starts, features) ==
  LET self == ElementData(ids, type_starts)
      \* what the loop body raises for a pair, None if it passes
      raised(pair) ==
        LET key == pair[1]
            data == pair[2]
        IN  IF data.ndim # 2 THEN ValueError
            ELSE IF key \notin DOMAIN self._type_element_ilocs THEN KeyError
            ELSE IF Len(data.rows) # RangeLen(self._type_element_ilocs[key])
              THEN ValueError
            ELSE None
      bad == {k \in 1..Len(features) : raised(features[k]) # None}
      first_bad == CHOOSE k \in bad : \A j \in bad : k <= j
      last_of(key) == CHOOSE k \in 1..Len(features) :
                        /\ features[k][1] = key
                        /\ \A j \in (k + 1)..Len(features) : features[j][1] # key
  IN  IF "error" \in DOMAIN self THEN self
      ELSE IF bad # {} THEN raised(features[first_bad])
      ELSE [_id_index |-> self._id_index,
            _type_index |-> self._type_index,
            _type_column |-> self._type_column,
            _type_element_ilocs |-> self._type_element_ilocs,
            _features |-> [key \in {features[k][1] : k \in 1..Len(features)} |->
                             features[last_of(key)][2]]]

\* NodeData.features that does not test for negative feature ilocs
features_negative_unchecked(self, type_name, id_ilocs) ==
  IF type_name \notin DOMAIN self._type_element_ilocs THEN KeyError
  ELSE
    LET start == self._type_element_ilocs[type_name].start
        feature_ilocs == subtract(id_ilocs, start)
    IN  IF type_name \notin DOMAIN self._features THEN KeyError
        ELSE
          LET matrix == self._features[type_name].rows
              rows == Len(matrix)
              in_bounds(a) == np_le(np_int(-rows), a) /\ np_lt(a, np_int(rows))
          IN  IF \E k \in 1..Len(feature_ilocs) : ~in_bounds(feature_ilocs[k])
                THEN ValueError
                ELSE [rows |-> [k \in 1..Len(feature_ilocs) |->
                                  matrix[(np_value(feature_ilocs[k]) % rows) + 1]]]

\* NodeData.features: [rows |-> the rows selected], or the error raised.
\* Indexing the matrix counts a negative index from the end and raises
\* IndexError out of bounds, which the method turns into ValueError
features(self, type_name, id_ilocs) ==
  IF type_name \notin DOMAIN self._type_element_ilocs THEN KeyError
  ELSE
    LET start == self._type_element_ilocs[type_name].start
        feature_ilocs == subtract(id_ilocs, start)
    IN  IF \E k \in 1..Len(feature_ilocs) : np_lt(feature_ilocs[k], np_int(0))
          THEN ValueError
        ELSE IF type_name \notin DOMAIN self._features THEN KeyError
        ELSE
          LET matrix == self._features[type_name].rows
              rows == Len(matrix)
              in_bounds(a) == np_le(np_int(-rows), a) /\ np_lt(a, np_int(rows))
          IN  IF \E k \in 1..Len(feature_ilocs) : ~in_bounds(feature_ilocs[k])
                THEN ValueError
                ELSE [rows |-> [k \in 1..Len(feature_ilocs) |->
                                  matrix[(np_value(feature_ilocs[k]) % rows) + 1]]]

-----------------------------------------------------------------------------
(* EdgeData: the lazy caches and the public queries *)

\* EdgeData._init_undirected_adj_lists
_init_undirected_adj_lists ==
  _edges_dict' = Some(_create_undirected_adj_lists)

\* _init_directed_adj_lists that stores the in view only
_init_directed_adj_lists_in_only ==
  /\ _edges_in_dict' = Some(_create_directed_adj_lists[1])
  /\ UNCHANGED _edges_out_dict

\* EdgeData._init_directed_adj_lists
_init_directed_adj_lists ==
  LET lists == _create_directed_adj_lists
  IN  /\ _edges_in_dict' = Some(lists[1])
      /\ _edges_out_dict' = Some(lists[2])

\* EdgeData._init_undirected_adj_lists_by_other_node_type
_init_undirected_adj_lists_by_other_node_type ==
  _edges_dict_by_other_node_type' =
    Some(_create_undirected_adj_lists_by_other_node_type)

\* EdgeData._init_directed_adj_lists_by_other_node_type
_init_directed_adj_lists_by_other_node_type ==
  LET lists == _create_directed_adj_lists_by_other_node_type
  IN  /\ _edges_in_dict_by_other_node_type' = Some(lists[1])
      /\ _edges_out_dict_by_other_node_type' = Some(lists[2])

\* EdgeData._adj_lookup: its effect on the three caches it reads
_adj_lookup(ins, outs) ==
  IF ins /\ outs THEN
    /\ IF _edges_dict = None
         THEN _init_undirected_adj_lists
         ELSE UNCHANGED _edges_dict
    /\ UNCHANGED <<_edges_in_dict, _edges_out_dict>>
  ELSE IF ins THEN
    /\ IF _edges_in_dict = None
         THEN _init_directed_adj_lists
         ELSE UNCHANGED <<_edges_in_dict, _edges_out_dict>>
    /\ UNCHANGED _edges_dict
  ELSE IF outs THEN
    /\ IF _edges_out_dict = None
         THEN _init_directed_adj_lists
         ELSE UNCHANGED <<_edges_in_dict, _edges_out_dict>>
    /\ UNCHANGED _edges_dict
  ELSE \* raise ValueError
    UNCHANGED <<_edges_dict, _edges_in_dict, _edges_out_dict>>

\* EdgeData._adj_lookup_by_other_node_type: its effect on the three caches
_adj_lookup_by_other_node_type(ins, outs) ==
  IF ins /\ outs THEN
    /\ IF _edges_dict_by_other_node_type = None
         THEN _init_undirected_adj_lists_by_other_node_type
         ELSE UNCHANGED _edges_dict_by_other_node_type
    /\ UNCHANGED <<_edges_in_dict_by_other_node_type,
                   _edges_out_dict_by_other_node_type>>
  ELSE IF ins THEN
    /\ IF _edges_in_dict_by_other_node_type = None
         THEN _init_directed_adj_lists_by_other_node_type
         ELSE UNCHANGED <<_edges_in_dict_by_other_node_type,
                          _edges_out_dict_by_other_node_type>>
    /\ UNCHANGED _edges_dict_by_other_node_type
  ELSE IF outs THEN
    /\ IF _edges_out_dict_by_other_node_type = None
         THEN _init_directed_adj_lists_by_other_node_type
         ELSE UNCHANGED <<_edges_in_dict_by_other_node_type,
                          _edges_out_dict_by_other_node_type>>
    /\ UNCHANGED _edges_dict_by_other_node_type
  ELSE \* raise ValueError
    UNCHANGED <<_edges_dict_by_other_node_type,
                _edges_in_dict_by_other_node_type,
                _edges_out_dict_by_other_node_type>>

\* what _adj_lookup returns: the cache it selected, read after the lookup
adj_returned(ins, outs) ==
  IF ins /\ outs THEN _edges_dict
  ELSE IF ins THEN _edges_in_dict
  ELSE _edges_out_dict

\* what _adj_lookup_by_other_node_type returns, read after the lookup
adj_by_type_returned(ins, outs) ==
  IF ins /\ outs THEN _edges_dict_by_other_node_type
  ELSE IF ins THEN _edges_in_dict_by_other_node_type
  ELSE _edges_out_dict_by_other_node_type

\* EdgeData.degrees, on the state its lookup left: node iloc -> degree
degrees(ins, outs) ==
  IF ~ins /\ ~outs THEN ValueError
  ELSE LET adj == Val(adj_returned(ins, outs))
       IN  [key \in DOMAIN items(adj) |-> Len(items(adj)[key].ilocs)]

\* EdgeData.edge_ilocs, on the state its lookup left.  other_node_type_iloc is
\* None or Some(type code); a type that is no key of the dict falls back to
\* defaultdict(list), whose item is the empty list for every key
edge_ilocs(node_iloc, ins, outs, other_node_type_iloc) ==
  IF ~ins /\ ~outs THEN ValueError
  ELSE IF other_node_type_iloc # None THEN
    LET index == Val(adj_by_type_returned(ins, outs))
        t == Val(other_node_type_iloc)
    IN  IF t \in DOMAIN index THEN getitem(index[t], node_iloc) ELSE Ilocs(<<>>)
  ELSE getitem(Val(adj_returned(ins, outs)), node_iloc)

\* the variables no query on an EdgeData touches
thread_vars == <<pc, request, created, returned>>
not_threads == <<edge_inputs, requested,
                 _edges_dict_by_other_node_type,
                 _edges_in_dict_by_other_node_type,
                 _edges_out_dict_by_other_node_type,
                 id_index, id_call, id_result,
                 element, element_call, element_result>>
not_id_index == <<edge_inputs, edge_caches, requested, thread_vars, element_vars>>
not_element == <<edge_inputs, edge_caches, requested, thread_vars, id_vars>>
not_edge_data == <<id_index, id_call, id_result,
                   element, element_call, element_result, thread_vars>>
not_edge_caches == <<number_of_nodes, type_ilocs, sources, targets, argsort_ties,
                     requested, not_edge_data>>

\* a call of degrees(ins=, outs=): the lookup builds the view if it has to, and
\* the value returned is degrees(ins, outs) above
Degrees(ins, outs) ==
  /\ _adj_lookup(ins, outs)
  /\ UNCHANGED <<_edges_dict_by_other_node_type,
                 _edges_in_dict_by_other_node_type,
                 _edges_out_dict_by_other_node_type>>
  /\ UNCHANGED not_edge_caches

\* a call of edge_ilocs(node_iloc, ins=, outs=) without other_node_type_iloc.
\* The node iloc selects a group of the view and does not touch the caches:
\* the value returned for each node_iloc is edge_ilocs(node_iloc, ...) above
EdgeIlocs(ins, outs) ==
  /\ _adj_lookup(ins, outs)
  /\ UNCHANGED <<_edges_dict_by_other_node_type,
                 _edges_in_dict_by_other_node_type,
                 _edges_out_dict_by_other_node_type>>
  /\ UNCHANGED not_edge_caches

\* a call of edge_ilocs(node_iloc, ins=, outs=, other_node_type_iloc=t)
EdgeIlocsByType(ins, outs) ==
  /\ _adj_lookup_by_other_node_type(ins, outs)
  /\ UNCHANGED <<_edges_dict, _edges_in_dict, _edges_out_dict>>
  /\ UNCHANGED not_edge_caches

-----------------------------------------------------------------------------
(* The inputs the collections are built from *)

\* the i-th external id and the i-th type name: any values that are not ilocs
ExternalId(i) == 1000 + 7 * i
TypeName(i) == 500 + i

\* n distinct ids
distinct_ids(n) == ndarray([k \in 1..n |-> ExternalId(k - 1)])

\* the node collection has two node types, the first starting at 0; either may
\* be empty.  These are the type_starts over n nodes that ElementData accepts
NodeTypeStarts(n) ==
  {<<<<TypeName(0), 0>>, <<TypeName(1), start>>>> : start \in 0..n}

\* NodeData(ids, type_starts, features).type_ilocs, as plain type codes
node_type_ilocs(n, type_starts) ==
  LET node_data == ElementData(distinct_ids(n), type_starts)
  IN  [k \in 1..n |-> np_value(node_data._type_column[k])]

\* the threads that share the EdgeData
Threads == {"t1", "t2"}

ThreadsIdle ==
  /\ pc = [t \in Threads |-> "idle"]
  /\ request = [t \in Threads |-> <<FALSE, FALSE>>]
  /\ created = [t \in Threads |-> None]
  /\ returned = [t \in Threads |-> None]

IdIndexIdle == id_index = None /\ id_call = None /\ id_result = None
ElementIdle == element = None /\ element_call = None /\ element_result = None

\* EdgeData.__init__ on a graph of at most max_nodes nodes and max_edges
\* edges: the columns are stored and every cache starts as None
EdgeDataInit(max_nodes, max_edges) ==
  /\ number_of_nodes \in 0..max_nodes
  /\ \E type_starts \in NodeTypeStarts(number_of_nodes) :
       type_ilocs = node_type_ilocs(number_of_nodes, type_starts)
  /\ \E num_edges \in 0..(IF number_of_nodes = 0 THEN 0 ELSE max_edges) :
       /\ sources \in [1..num_edges -> 0..(number_of_nodes - 1)]
       /\ targets \in [1..num_edges -> 0..(number_of_nodes - 1)]
  /\ argsort_ties \in {"ascending", "descending"}
  /\ _edges_dict = None
  /\ _edges_in_dict = None
  /\ _edges_out_dict = None
  /\ _edges_dict_by_other_node_type = None
  /\ _edges_in_dict_by_other_node_type = None
  /\ _edges_out_dict_by_other_node_type = None
  /\ requested = {}

-----------------------------------------------------------------------------
(* Spec: one EdgeData and any sequence of queries on it *)

Init ==
  EdgeDataInit(MaxNodes, MaxEdges) /\ IdIndexIdle /\ ElementIdle /\ ThreadsIdle

Next ==
  \/ \E ins, outs \in BOOLEAN : Degrees(ins, outs)
  \/ \E ins, outs \in BOOLEAN : EdgeIlocs(ins, outs)
  \/ \E ins, outs \in BOOLEAN : EdgeIlocsByType(ins, outs)

Spec == Init /\ [][Next]_vars

-----------------------------------------------------------------------------
(* SpecLazy: the same queries, with the history of the views they asked for *)

\* the view a query with these arguments asks for
view_of(ins, outs, by_type) ==
  (IF ins /\ outs THEN "both" ELSE IF ins THEN "in" ELSE "out")
    \o (IF by_type THEN "_by_other_node_type" ELSE "")

Views == {view_of(ins, outs, by_type) :
            ins \in BOOLEAN, outs \in BOOLEAN, by_type \in BOOLEAN}

\* a query, recorded: asking for neither direction raises before any view is
\* selected
Recorded(ins, outs, by_type) ==
  /\ requested' = IF ins \/ outs
                    THEN requested \cup {view_of(ins, outs, by_type)}
                    ELSE requested
  /\ UNCHANGED <<edge_inputs, not_edge_data>>

LazyDegrees(ins, outs) ==
  /\ _adj_lookup(ins, outs)
  /\ UNCHANGED <<_edges_dict_by_other_node_type,
                 _edges_in_dict_by_other_node_type,
                 _edges_out_dict_by_other_node_type>>
  /\ Recorded(ins, outs, FALSE)

LazyEdgeIlocs(ins, outs) ==
  /\ _adj_lookup(ins, outs)
  /\ UNCHANGED <<_edges_dict_by_other_node_type,
                 _edges_in_dict_by_other_node_type,
                 _edges_out_dict_by_other_node_type>>
  /\ Recorded(ins, outs, FALSE)

LazyEdgeIlocsByType(ins, outs) ==
  /\ _adj_lookup_by_other_node_type(ins, outs)
  /\ UNCHANGED <<_edges_dict, _edges_in_dict, _edges_out_dict>>
  /\ Recorded(ins, outs, TRUE)

LazyInit ==
  /\ EdgeDataInit(MaxLazyNodes, MaxLazyEdges)
  /\ IdIndexIdle /\ ElementIdle /\ ThreadsIdle

LazyNext ==
  \/ \E ins, outs \in BOOLEAN : LazyDegrees(ins, outs)
  \/ \E ins, outs \in BOOLEAN : LazyEdgeIlocs(ins, outs)
  \/ \E ins, outs \in BOOLEAN : LazyEdgeIlocsByType(ins, outs)

SpecLazy == LazyInit /\ [][LazyNext]_vars

-----------------------------------------------------------------------------
(* SpecConc: threads calling _adj_lookup on one EdgeData without a lock.     *)
(* A step is one read or one store of an attribute of the EdgeData; building *)
(* a view reads the immutable columns only and is one step of its thread.    *)

\* _adj_lookup that tests the in cache before it returns the out cache
adj_checked_in_for_out(ins, outs) ==
  IF ins /\ outs THEN _edges_dict ELSE _edges_in_dict

\* the cache _adj_lookup tests against None for a direction: the one it returns
adj_checked(ins, outs) == adj_returned(ins, outs)

\* a thread enters _adj_lookup(ins=, outs=)
ThreadCall(t, ins, outs) ==
  /\ pc[t] \in {"idle", "done"}
  /\ pc' = [pc EXCEPT ![t] = "check"]
  /\ request' = [request EXCEPT ![t] = <<ins, outs>>]
  /\ created' = [created EXCEPT ![t] = None]
  /\ returned' = [returned EXCEPT ![t] = None]
  /\ UNCHANGED <<_edges_dict, _edges_in_dict, _edges_out_dict>>
  /\ UNCHANGED not_threads

\* `if self._edges_..._dict is None:`, or the ValueError for neither direction
ThreadCheck(t) ==
  /\ pc[t] = "check"
  /\ LET ins == request[t][1]
         outs == request[t][2]
     IN  IF ~ins /\ ~outs
           THEN /\ returned' = [returned EXCEPT ![t] = Some(ValueError)]
                /\ pc' = [pc EXCEPT ![t] = "done"]
           ELSE /\ pc' = [pc EXCEPT ![t] =
                           IF adj_checked(ins, outs) = None
                             THEN "create" ELSE "return"]
                /\ UNCHANGED returned
  /\ UNCHANGED <<request, created, _edges_dict, _edges_in_dict, _edges_out_dict>>
  /\ UNCHANGED not_threads

\* the right-hand side of the assignment in _init_undirected_adj_lists or
\* _init_directed_adj_lists
ThreadCreate(t) ==
  /\ pc[t] = "create"
  /\ created' = [created EXCEPT ![t] =
                   IF request[t][1] /\ request[t][2]
                     THEN Some(_create_undirected_adj_lists)
                     ELSE Some(_create_directed_adj_lists)]
  /\ pc' = [pc EXCEPT ![t] =
              IF request[t][1] /\ request[t][2] THEN "store" ELSE "store_in"]
  /\ UNCHANGED <<request, returned, _edges_dict, _edges_in_dict, _edges_out_dict>>
  /\ UNCHANGED not_threads

\* self._edges_dict = ...
ThreadStore(t) ==
  /\ pc[t] = "store"
  /\ _edges_dict' = Some(Val(created[t]))
  /\ pc' = [pc EXCEPT ![t] = "return"]
  /\ UNCHANGED <<request, created, returned, _edges_in_dict, _edges_out_dict>>
  /\ UNCHANGED not_threads

\* self._edges_in_dict, self._edges_out_dict = ...: the first target
ThreadStoreIn(t) ==
  /\ pc[t] = "store_in"
  /\ _edges_in_dict' = Some(Val(created[t])[1])
  /\ pc' = [pc EXCEPT ![t] = "store_out"]
  /\ UNCHANGED <<request, created, returned, _edges_dict, _edges_out_dict>>
  /\ UNCHANGED not_threads

\* self._edges_in_dict, self._edges_out_dict = ...: the second target
ThreadStoreOut(t) ==
  /\ pc[t] = "store_out"
  /\ _edges_out_dict' = Some(Val(created[t])[2])
  /\ pc' = [pc EXCEPT ![t] = "return"]
  /\ UNCHANGED <<request, created, returned, _edges_dict, _edges_in_dict>>
  /\ UNCHANGED not_threads

\* `return self._edges_..._dict`
ThreadReturn(t) ==
  /\ pc[t] = "return"
  /\ returned' = [returned EXCEPT ![t] = adj_returned(request[t][1], request[t][2])]
  /\ pc' = [pc EXCEPT ![t] = "done"]
  /\ UNCHANGED <<request, created, _edges_dict, _edges_in_dict, _edges_out_dict>>
  /\ UNCHANGED not_threads

ConcInit == LazyInit

ConcNext ==
  \/ \E t \in Threads, ins, outs \in BOOLEAN :
       ThreadCall(t, ins, outs)
  \/ \E t \in Threads : ThreadCheck(t)
  \/ \E t \in Threads : ThreadCreate(t)
  \/ \E t \in Threads : ThreadStore(t)
  \/ \E t \in Threads : ThreadStoreIn(t)
  \/ \E t \in Threads : ThreadStoreOut(t)
  \/ \E t \in Threads : ThreadReturn(t)

SpecConc == ConcInit /\ [][ConcNext]_vars

-----------------------------------------------------------------------------
(* SpecElem: an ElementData is constructed and asked for types and ranges *)

\* no EdgeData exists in the specifications of the other classes
NoEdgeData ==
  /\ number_of_nodes = 0 /\ type_ilocs = <<>>
  /\ sources = <<>> /\ targets = <<>>
  /\ argsort_ties = "ascending"
  /\ _edges_dict = None /\ _edges_in_dict = None /\ _edges_out_dict = None
  /\ _edges_dict_by_other_node_type = None
  /\ _edges_in_dict_by_other_node_type = None
  /\ _edges_out_dict_by_other_node_type = None
  /\ requested = {}

\* the sequences over S of length at most n
SeqUpTo(S, n) == UNION {[1..len -> S] : len \in 0..n}

\* the arguments of ElementData(ids, type_starts): ids that may repeat, type
\* names that may repeat, starts that may be negative or beyond the ids
ElementIds == SeqUpTo({ExternalId(k) : k \in 0..(MaxElements - 1)}, MaxElements)
ElementTypeNames == {TypeName(k) : k \in 0..(MaxTypes - 1)}
ElementTypeStarts ==
  SeqUpTo(ElementTypeNames \X (-1..(MaxElements + 1)), MaxTypes)

\* ElementData(ids, type_starts), once: the object is bound only if __init__
\* returns
ElementBuild(ids, type_starts) ==
  /\ element = None /\ element_call = None
  /\ LET self == ElementData(ids, type_starts)
     IN  IF "error" \in DOMAIN self
           THEN element' = None /\ element_result' = Some(self)
           ELSE element' = Some(self) /\ element_result' = None
  /\ element_call' = Some([op |-> "ElementData", ids |-> ids,
                           type_starts |-> type_starts])
  /\ UNCHANGED not_element

\* element.type_of_iloc(id_iloc)
ElementTypeOfIloc(id_iloc) ==
  /\ element # None
  /\ element_call' = Some([op |-> "type_of_iloc", id_iloc |-> id_iloc])
  /\ element_result' = Some(type_of_iloc(Val(element), id_iloc))
  /\ UNCHANGED element
  /\ UNCHANGED not_element

\* element.type_range(type_name)
ElementTypeRange(type_name) ==
  /\ element # None
  /\ element_call' = Some([op |-> "type_range", type_name |-> type_name])
  /\ element_result' = Some(type_range(Val(element), type_name))
  /\ UNCHANGED element
  /\ UNCHANGED not_element

ElemInit == NoEdgeData /\ ThreadsIdle /\ IdIndexIdle /\ ElementIdle

ElemNext ==
  \/ \E ids \in ElementIds, type_starts \in ElementTypeStarts :
       ElementBuild(ids, type_starts)
  \/ \E id_iloc \in -1..MaxElements :
       ElementTypeOfIloc(id_iloc)
  \/ \E type_name \in ElementTypeNames \cup {TypeName(MaxTypes)} :
       ElementTypeRange(type_name)

SpecElem == ElemInit /\ [][ElemNext]_vars

-----------------------------------------------------------------------------
(* SpecNode: a NodeData is constructed and asked for features.  The object  *)
(* is held in `element`: a NodeData is an ElementData.                      *)

\* the node counts on either side of the change from 8 to 16 bits
NodeBoundaryCounts == {2^8 - 1, 2^8}
NodeCounts == (0..MaxElements) \cup NodeBoundaryCounts

\* two node types, the second starting anywhere in a small collection and at
\* either end of a large one
NodeDataTypeStarts(n) ==
  {<<<<TypeName(0), 0>>, <<TypeName(1), start>>>> :
     start \in IF n <= MaxElements THEN 0..n ELSE {0, 1, n - 1, n}}

\* row i of the matrix of a type, and the matrix of n rows
FeatureRow(type_name, i) == <<type_name, i>>
Matrix(type_name, n) ==
  [ndim |-> 2, rows |-> [i \in 1..n |-> FeatureRow(type_name, i - 1)]]

\* what may be passed as the features of one type whose range has n ilocs:
\* nothing, its matrix, a matrix with a row too many, or a rank-1 array
FeaturesOfType(type_name, n) ==
  {<<>>, <<<<type_name, Matrix(type_name, n)>>>>,
   <<<<type_name, Matrix(type_name, n + 1)>>>>,
   <<<<type_name, [ndim |-> 1, rows |-> <<>>]>>>>}

\* the features passed with type_starts over n ids
NodeFeatures(n, type_starts) ==
  LET start == type_starts[2][2]
  IN  {first \o second :
         first \in FeaturesOfType(TypeName(0), start),
         second \in FeaturesOfType(TypeName(1), n - start)}

\* NodeData(ids, type_starts, features), once
NodeBuild(n, type_starts, node_features) ==
  /\ element = None /\ element_call = None
  /\ LET self == NodeData(distinct_ids(n), type_starts, node_features)
     IN  IF "error" \in DOMAIN self
           THEN element' = None /\ element_result' = Some(self)
           ELSE element' = Some(self) /\ element_result' = None
  /\ element_call' = Some([op |-> "NodeData", n |-> n,
                           type_starts |-> type_starts])
  /\ UNCHANGED not_element

\* the global ilocs asked for: every iloc of a small collection and the one
\* past it; the ilocs around the type boundaries of a large one
NodeQueryIlocs(self) ==
  LET n == Len(self._id_index._index)
  IN  IF n <= MaxElements THEN 0..n
      ELSE {0, 1, n - 2, n - 1, n}

\* the arrays of one iloc passed to features: the iloc or the missing
\* sentinel, as to_iloc returns them with smaller_type False or True
NodeQueryArrays(self) ==
  LET W == self._id_index.dtype
  IN  {[ilocs |-> <<np_int(g)>>, dtype |-> None] :
          g \in NodeQueryIlocs(self) \cup {-1}}
      \cup {[ilocs |-> <<np_cast(np_int(g), W)>>, dtype |-> Some(W)] :
          g \in {i \in NodeQueryIlocs(self) : i < 2^W} \cup {-1}}

\* node_data.features(type_name, id_ilocs)
NodeFeaturesOf(type_name) ==
  /\ element # None
  /\ \E id_ilocs \in NodeQueryArrays(Val(element)) :
       /\ element_call' = Some([op |-> "features", type_name |-> type_name,
                                id_ilocs |-> id_ilocs])
       /\ element_result' = Some(features(Val(element), type_name, id_ilocs))
  /\ UNCHANGED element
  /\ UNCHANGED not_element

NodeInit == NoEdgeData /\ ThreadsIdle /\ IdIndexIdle /\ ElementIdle

NodeNext ==
  \/ \E n \in NodeCounts :
       \E type_starts \in NodeDataTypeStarts(n) :
         \E node_features \in NodeFeatures(n, type_starts) :
           NodeBuild(n, type_starts, node_features)
  \/ \E type_name \in {TypeName(0), TypeName(1), TypeName(2)} :
       NodeFeaturesOf(type_name)

SpecNode == NodeInit /\ [][NodeNext]_vars

-----------------------------------------------------------------------------
(* SpecIndex: an ExternalIdIndex is constructed and queried *)

\* the identifier counts on either side of a change of width
BoundaryCounts == {2^8 - 1, 2^8, 2^16 - 1, 2^16}

\* the ids an index is built from: short sequences that may repeat an id, and
\* distinct ids of the boundary counts
IndexIds ==
  SeqUpTo({ExternalId(k) : k \in 0..(MaxIds - 1)}, MaxIds)
    \cup {distinct_ids(n) : n \in BoundaryCounts}

\* ids that no index holds
UnknownIds == {ExternalId(-1), ExternalId(-2)}

\* the ids a query on the index draws from: unknown ids and every id of a
\* short index; one unknown id and the last id of a long one
QueryPool(self) ==
  LET n == Len(self._index)
  IN  IF n <= MaxIds THEN UnknownIds \cup Range(self._index)
      ELSE {ExternalId(-1), self._index[n]}

\* the queries made on the index
Queries(self) == SeqUpTo(QueryPool(self), MaxQuery)

\* ExternalIdIndex(ids), once: the object is bound only if __init__ returns
IdBuild(ids) ==
  /\ id_index = None /\ id_call = None
  /\ LET self == ExternalIdIndex(ids)
     IN  IF "error" \in DOMAIN self
           THEN id_index' = None /\ id_result' = Some(self)
           ELSE id_index' = Some(self) /\ id_result' = None
  /\ id_call' = Some([op |-> "ExternalIdIndex", count |-> Len(ids)])
  /\ UNCHANGED not_id_index

\* index.to_iloc(ids, smaller_type=, strict=).  No call changes the index, so
\* the model follows one query, and one call on its result, per index
IdToIloc(smaller_type, strict) ==
  /\ id_index # None
  /\ Val(id_call).op = "ExternalIdIndex"
  /\ \E ids \in Queries(Val(id_index)) :
       /\ id_call' = Some([op |-> "to_iloc", ids |-> ids,
                           smaller_type |-> smaller_type, strict |-> strict])
       /\ id_result' =
            Some(to_iloc(Val(id_index), ids, smaller_type, strict))
  /\ UNCHANGED id_index
  /\ UNCHANGED not_id_index

\* to_iloc has returned ilocs: the next call may take them as its argument
HasIlocs ==
  /\ id_call # None /\ Val(id_call).op = "to_iloc"
  /\ "ilocs" \in DOMAIN Val(id_result)

\* index.from_iloc(ilocs) on the ilocs to_iloc has just returned
IdFromIloc ==
  /\ id_index # None /\ HasIlocs
  /\ id_call' = Some([Val(id_call) EXCEPT !.op = "from_iloc"])
  /\ id_result' = Some(from_iloc(Val(id_index), Val(id_result).ilocs))
  /\ UNCHANGED id_index
  /\ UNCHANGED not_id_index

\* index.is_valid(ilocs) on the ilocs to_iloc has just returned
IdIsValid ==
  /\ id_index # None /\ HasIlocs
  /\ id_call' = Some([Val(id_call) EXCEPT !.op = "is_valid"])
  /\ id_result' =
       Some([valid |-> [k \in 1..Len(Val(id_result).ilocs) |->
                          is_valid(Val(id_index), Val(id_result).ilocs[k])]])
  /\ UNCHANGED id_index
  /\ UNCHANGED not_id_index

IndexInit == NoEdgeData /\ ThreadsIdle /\ IdIndexIdle /\ ElementIdle

IndexNext ==
  \/ \E ids \in IndexIds : IdBuild(ids)
  \/ \E smaller_type, strict \in BOOLEAN : IdToIloc(smaller_type, strict)
  \/ IdFromIloc
  \/ IdIsValid

SpecIndex == IndexInit /\ [][IndexNext]_vars

-----------------------------------------------------------------------------
(* Vocabulary of the properties *)

NodeIlocs == 0..(number_of_nodes - 1)
EdgeIlocSet == 0..(Len(sources) - 1)
source_of(e) == sources[e + 1]
target_of(e) == targets[e + 1]
SelfLoops == {e \in EdgeIlocSet : source_of(e) = target_of(e)}
OutEdges(n) == {e \in EdgeIlocSet : source_of(e) = n}
InEdges(n) == {e \in EdgeIlocSet : target_of(e) = n}
NodeTypeCodes == {0, 1}

AllViewsBuilt ==
  /\ _edges_dict # None
  /\ _edges_in_dict # None
  /\ _edges_out_dict # None
  /\ _edges_dict_by_other_node_type # None
  /\ _edges_in_dict_by_other_node_type # None
  /\ _edges_out_dict_by_other_node_type # None

\* the result is a returned array holding exactly the members of S, each once
HoldsExactly(result, S) ==
  /\ "ilocs" \in DOMAIN result
  /\ Len(result.ilocs) = Cardinality(S)
  /\ Range(result.ilocs) = S

RECURSIVE SumOver(_, _)
SumOver(f, S) ==
  IF S = {} THEN 0
  ELSE LET x == CHOOSE y \in S : TRUE IN f[x] + SumOver(f, S \ {x})

\* C1: once the undirected view has been looked up, edge_ilocs(n, ins=True,
\* outs=True) is, for every node n, exactly the set of edges with source n or
\* target n, each edge once: a self-loop on n is in n's group once and in no
\* other group.
C1_UndirectedGroups ==
  _edges_dict # None =>
    \A n \in NodeIlocs :
      HoldsExactly(edge_ilocs(n, TRUE, TRUE, None), OutEdges(n) \cup InEdges(n))

\* a looked-up undirected view of a graph where one node has a self-loop and
\* another edge, and some other edge is parallel to or apart from it
C1_Witness ==
  /\ _edges_dict # None
  /\ \E n \in NodeIlocs, e \in SelfLoops :
       /\ source_of(e) = n
       /\ \E e2 \in (OutEdges(n) \cup InEdges(n)) \ SelfLoops :
            Len(edge_ilocs(n, TRUE, TRUE, None).ilocs) = 2

\* C2: once the directed views have been looked up, edge_ilocs(n, outs=True) is
\* exactly the set of edges whose source is n and edge_ilocs(n, ins=True) exactly
\* the set of edges whose target is n, each edge once; a node without such edges
\* gets the empty group.
C2_DirectedGroups ==
  /\ _edges_out_dict # None =>
       \A n \in NodeIlocs :
         HoldsExactly(edge_ilocs(n, FALSE, TRUE, None), OutEdges(n))
  /\ _edges_in_dict # None =>
       \A n \in NodeIlocs :
         HoldsExactly(edge_ilocs(n, TRUE, FALSE, None), InEdges(n))

\* looked-up directed views where one node has two outgoing edges and no
\* incoming one, so that its in group is empty
C2_Witness ==
  /\ _edges_out_dict # None
  /\ _edges_in_dict # None
  /\ \E n \in NodeIlocs :
       /\ Cardinality(OutEdges(n)) = 2
       /\ edge_ilocs(n, TRUE, FALSE, None) = Ilocs(<<>>)
       /\ Len(edge_ilocs(n, FALSE, TRUE, None).ilocs) = 2

\* C3: the degrees degrees() reports sum to 2E - (number of self-loops) for both
\* directions, and to E for out and for in.
C3_DegreeSums ==
  /\ _edges_dict # None =>
       SumOver(degrees(TRUE, TRUE), NodeIlocs)
         = 2 * Len(sources) - Cardinality(SelfLoops)
  /\ _edges_out_dict # None =>
       SumOver(degrees(FALSE, TRUE), NodeIlocs) = Len(sources)
  /\ _edges_in_dict # None =>
       SumOver(degrees(TRUE, FALSE), NodeIlocs) = Len(sources)

\* degrees of all three directions looked up on a graph with a self-loop and an
\* edge between two nodes
C3_Witness ==
  /\ _edges_dict # None /\ _edges_out_dict # None /\ _edges_in_dict # None
  /\ SelfLoops # {}
  /\ EdgeIlocSet \ SelfLoops # {}
  /\ SumOver(degrees(TRUE, TRUE), NodeIlocs) = 3

\* the type of the endpoint of edge e that is not node n, seen in a direction:
\* the target for an outgoing edge, the source for an incoming one, and for both
\* directions the endpoint that is not n (n itself for a self-loop)
OtherTypeOut(e) == type_ilocs[target_of(e) + 1]
OtherTypeIn(e) == type_ilocs[source_of(e) + 1]
OtherTypeBoth(e, n) ==
  IF source_of(e) = n THEN OtherTypeOut(e) ELSE OtherTypeIn(e)

\* the typed groups of node n in one direction partition its untyped group:
\* group(t) holds exactly the edges of `all` whose other endpoint has type t,
\* and the sizes add up to the degree
TypedGroupsPartition(n, ins, outs, all, OtherType(_)) ==
  /\ \A t \in NodeTypeCodes :
       HoldsExactly(edge_ilocs(n, ins, outs, Some(t)),
                    {e \in all : OtherType(e) = t})
  /\ SumOver([t \in NodeTypeCodes |->
                Len(edge_ilocs(n, ins, outs, Some(t)).ilocs)], NodeTypeCodes)
       = degrees(ins, outs)[n]

\* C4: for every node n and direction d, the groups edge_ilocs(n, d, other_type)
\* over all node types partition edge_ilocs(n, d): each holds exactly the edges
\* whose other endpoint has that type, their sizes sum to degree(n, d), and a
\* type that never occurs as an other endpoint gives the empty result.
C4_TypedGroupsPartition ==
  /\ (_edges_out_dict_by_other_node_type # None /\ _edges_out_dict # None) =>
       \A n \in NodeIlocs :
         TypedGroupsPartition(n, FALSE, TRUE, OutEdges(n), OtherTypeOut)
  /\ (_edges_in_dict_by_other_node_type # None /\ _edges_in_dict # None) =>
       \A n \in NodeIlocs :
         TypedGroupsPartition(n, TRUE, FALSE, InEdges(n), OtherTypeIn)
  /\ (_edges_dict_by_other_node_type # None /\ _edges_dict # None) =>
       \A n \in NodeIlocs :
         LET OtherType(e) == OtherTypeBoth(e, n)
         IN  TypedGroupsPartition(n, TRUE, TRUE,
                                  OutEdges(n) \cup InEdges(n), OtherType)
  /\ \A t \in NodeTypeCodes, n \in NodeIlocs :
       /\ (_edges_out_dict_by_other_node_type # None
             /\ t \notin DOMAIN Val(_edges_out_dict_by_other_node_type))
            => edge_ilocs(n, FALSE, TRUE, Some(t)) = Ilocs(<<>>)
       /\ (_edges_in_dict_by_other_node_type # None
             /\ t \notin DOMAIN Val(_edges_in_dict_by_other_node_type))
            => edge_ilocs(n, TRUE, FALSE, Some(t)) = Ilocs(<<>>)
       /\ (_edges_dict_by_other_node_type # None
             /\ t \notin DOMAIN Val(_edges_dict_by_other_node_type))
            => edge_ilocs(n, TRUE, TRUE, Some(t)) = Ilocs(<<>>)

\* every view looked up on a graph of two node types where one node has a
\* self-loop and an edge to a node of the other type: its undirected and its
\* outgoing typed groups are both non-empty for both types
C4_Witness ==
  /\ AllViewsBuilt
  /\ \E n \in NodeIlocs :
       /\ \A t \in NodeTypeCodes :
            /\ Len(edge_ilocs(n, TRUE, TRUE, Some(t)).ilocs) = 1
            /\ Len(edge_ilocs(n, FALSE, TRUE, Some(t)).ilocs) = 1
       /\ OutEdges(n) \cap SelfLoops # {}
  /\ \E t \in NodeTypeCodes :
       t \notin DOMAIN Val(_edges_in_dict_by_other_node_type)

\* splits has one entry per node and one more, starts at 0, never decreases and
\* ends at the length of flat
WellFormed(adj) ==
  /\ Len(adj.splits) = number_of_nodes + 1
  /\ adj.splits[1] = 0
  /\ \A k \in 1..number_of_nodes : adj.splits[k] <= adj.splits[k + 1]
  /\ adj.splits[number_of_nodes + 1] = Len(adj.flat)

\* C5: every FlatAdjacencyList an adjacency builder has produced (in, out, both
\* and each per-other-type view of them) has splits of length N + 1 that start
\* at 0, never decrease and end at the length of the view's flat array.
C5_SplitsWellFormed ==
  /\ \A slot \in {_edges_dict, _edges_in_dict, _edges_out_dict} :
       slot # None => WellFormed(Val(slot))
  /\ \A slot \in {_edges_dict_by_other_node_type,
                  _edges_in_dict_by_other_node_type,
                  _edges_out_dict_by_other_node_type} :
       slot # None => \A t \in DOMAIN Val(slot) : WellFormed(Val(slot)[t])

\* every view built for a graph with a self-loop, another edge and other
\* endpoints of both node types
C5_Witness ==
  /\ AllViewsBuilt
  /\ SelfLoops # {}
  /\ EdgeIlocSet \ SelfLoops # {}
  /\ DOMAIN Val(_edges_dict_by_other_node_type) = NodeTypeCodes
  /\ \E t \in NodeTypeCodes :
       Len(Val(_edges_dict_by_other_node_type)[t].flat) = 2

\* whether the cache of a view holds a value
Built(view) ==
  CASE view = "both" -> _edges_dict # None
    [] view = "in" -> _edges_in_dict # None
    [] view = "out" -> _edges_out_dict # None
    [] view = "both_by_other_node_type" -> _edges_dict_by_other_node_type # None
    [] view = "in_by_other_node_type" -> _edges_in_dict_by_other_node_type # None
    [] view = "out_by_other_node_type" -> _edges_out_dict_by_other_node_type # None

\* the views one request builds together: in with out, and their per-type
\* views with each other
BuiltWith(view) ==
  CASE view \in {"in", "out"} -> {"in", "out"}
    [] view \in {"in_by_other_node_type", "out_by_other_node_type"} ->
         {"in_by_other_node_type", "out_by_other_node_type"}
    [] OTHER -> {view}

\* once a cache holds a value, no query changes it
NeverRebuilt ==
  /\ _edges_dict # None => _edges_dict' = _edges_dict
  /\ _edges_in_dict # None => _edges_in_dict' = _edges_in_dict
  /\ _edges_out_dict # None => _edges_out_dict' = _edges_out_dict
  /\ _edges_dict_by_other_node_type # None =>
       _edges_dict_by_other_node_type' = _edges_dict_by_other_node_type
  /\ _edges_in_dict_by_other_node_type # None =>
       _edges_in_dict_by_other_node_type' = _edges_in_dict_by_other_node_type
  /\ _edges_out_dict_by_other_node_type # None =>
       _edges_out_dict_by_other_node_type' = _edges_out_dict_by_other_node_type

\* C6 as stated: over any sequence of queries each view is built exactly when
\* it is first requested, so a view is built if and only if it was requested:
\* a request for one view builds no other view.
C6_BuiltIffRequested ==
  \A view \in Views : Built(view) <=> view \in requested

\* C6, amended: a view is built if and only if it or the view built with it
\* (in with out, in-by-type with out-by-type) was requested, and a cache that
\* holds a value is never rebuilt, replaced or reset.
C6_BuiltOnceWithItsPair ==
  /\ [](\A view \in Views : Built(view) <=> (BuiltWith(view) \cap requested) # {})
  /\ [][NeverRebuilt]_vars

\* the in view was requested and nothing else: in and out are both built and
\* the undirected view is not
C6_Witness ==
  /\ requested = {"in"}
  /\ Built("in") /\ Built("out") /\ ~Built("both")
  /\ Len(sources) > 0

\* the view a single-threaded run of _adj_lookup(ins, outs) returns
SequentialView(ins, outs) ==
  IF ins /\ outs THEN _create_undirected_adj_lists
  ELSE IF ins THEN _create_directed_adj_lists[1]
  ELSE _create_directed_adj_lists[2]

\* C7: under every interleaving of the threads' lookups, every lookup that has
\* returned has returned a fully built view, equal to the one a sequential run
\* returns (never None), and a store into a cache that already holds a value
\* stores the identical value.
C7_RacesAreHarmless ==
  /\ [](\A t \in Threads :
          (pc[t] = "done" /\ (request[t][1] \/ request[t][2])) =>
            returned[t] = Some(SequentialView(request[t][1], request[t][2])))
  /\ [][/\ _edges_dict # None => _edges_dict' = _edges_dict
        /\ _edges_in_dict # None => _edges_in_dict' = _edges_in_dict
        /\ _edges_out_dict # None => _edges_out_dict' = _edges_out_dict]_vars

\* two threads have both built the directed views (neither saw a cached value)
\* and have returned, one the in view and one the out view, which differ
C7_Witness ==
  \E t, u \in Threads :
    /\ t # u
    /\ pc[t] = "done" /\ pc[u] = "done"
    /\ created[t] # None /\ created[u] # None
    /\ request[t] = <<TRUE, FALSE>> /\ request[u] = <<FALSE, TRUE>>
    /\ returned[t] # returned[u]

-----------------------------------------------------------------------------
(* ElementData *)

\* the types whose range holds the iloc
OwnersOf(self, iloc) ==
  {name \in DOMAIN self._type_element_ilocs :
     InRange(iloc, self._type_element_ilocs[name])}

\* C8: in every successfully constructed ElementData with N elements the type
\* ranges partition [0, N): no range reaches outside it, every iloc of it lies
\* in exactly one range, and type_of_iloc returns the name of the type that
\* owns the range.
C8_RangesPartition ==
  element # None =>
    LET self == Val(element)
        N == element_len(self)
    IN  /\ \A name \in DOMAIN self._type_element_ilocs :
             LET r == self._type_element_ilocs[name]
             IN  RangeLen(r) > 0 => (0 <= r.start /\ r.stop <= N)
        /\ \A iloc \in 0..(N - 1) :
             /\ Cardinality(OwnersOf(self, iloc)) = 1
             /\ \A name \in OwnersOf(self, iloc) :
                  type_of_iloc(self, iloc) = [ids |-> <<name>>]

-----------------------------------------------------------------------------
(* ExternalIdIndex *)

\* the ids of the query that the index does not hold, in query order
Unmatched(self, ids) == SelectSeq(ids, LAMBDA id : id \notin Range(self._index))

\* the largest value of the unsigned type of `bits` bits
MaxOfDtype(bits) ==
  IF bits = 8 THEN np_int(2^8 - 1)
  ELSE IF bits = 16 THEN np_int(2^16 - 1)
  ELSE <<2^16 - 1, 2^16 - 1>>

\* what to_iloc documents for an id that is missing
Sentinel(self, smaller_type) ==
  IF smaller_type THEN MaxOfDtype(self.dtype) ELSE np_int(-1)

\* the smallest of the unsigned widths that can represent count
SmallestWidth(count) ==
  IF count < 2^8 THEN 8 ELSE IF count < 2^16 THEN 16 ELSE 32

\* C9: on an index built from unique ids, in compact and non-compact mode:
\* from_iloc(to_iloc(ids)) is ids when every id is known; a strict to_iloc on a
\* query with unknown ids raises KeyError, carrying the value itself when
\* exactly one is unmatched and all the unmatched values otherwise; a
\* non-strict to_iloc returns the sentinel at the unknown positions and the
\* iloc of the id at the known ones.
C9_RoundTripAndMissing ==
  (id_index # None /\ id_call # None) =>
    LET self == Val(id_index)
        call == Val(id_call)
        result == Val(id_result)
        unmatched == Unmatched(self, call.ids)
    IN  /\ (call.op = "to_iloc" /\ call.strict /\ unmatched # <<>>) =>
             result = (IF Len(unmatched) = 1
                         THEN [error |-> "KeyError", value |-> unmatched[1]]
                         ELSE [error |-> "KeyError", values |-> unmatched])
        /\ (call.op = "to_iloc" /\ (~call.strict \/ unmatched = <<>>)) =>
             /\ "ilocs" \in DOMAIN result
             /\ Len(result.ilocs) = Len(call.ids)
             /\ \A k \in 1..Len(call.ids) :
                  IF call.ids[k] \in Range(self._index)
                    THEN /\ is_valid(self, result.ilocs[k])
                         /\ self._index[np_value(result.ilocs[k]) + 1] = call.ids[k]
                    ELSE result.ilocs[k] = Sentinel(self, call.smaller_type)
        /\ (call.op = "from_iloc" /\ unmatched = <<>>) =>
             result = [ids |-> call.ids]

\* the last of 2^16 ids has gone through a compact to_iloc and from_iloc
C9_Witness ==
  /\ id_index # None /\ id_call # None
  /\ Len(Val(id_index)._index) = 2^16
  /\ Val(id_call).op = "from_iloc" /\ Val(id_call).smaller_type
  /\ Val(id_call).ids = <<ExternalId(2^16 - 1)>>
  /\ Val(id_result) = [ids |-> <<ExternalId(2^16 - 1)>>]

\* C10: for every count of ids, the index keeps the smallest width W that
\* represents the count; the sentinel of either mode (-1 cast to W, or -1) is
\* not a valid iloc; every iloc below the count is valid, survives the cast to
\* W and differs from the sentinel; to_iloc returns the sentinel for a missing
\* id; and is_valid answers the same for a query in both modes.
C10_SentinelNeverValid ==
  id_index # None =>
    LET self == Val(id_index)
        call == Val(id_call)
        result == Val(id_result)
        count == Len(self._index)
        W == self.dtype
    IN  /\ W = SmallestWidth(count)
        /\ np_cast(np_int(-1), W) = MaxOfDtype(W)
        /\ ~is_valid(self, np_cast(np_int(-1), W))
        /\ ~is_valid(self, np_int(-1))
        /\ call.op = "ExternalIdIndex" =>
             \A iloc \in 0..(count - 1) :
               /\ is_valid(self, np_int(iloc))
               /\ np_cast(np_int(iloc), W) = np_int(iloc)
               /\ np_int(iloc) # np_cast(np_int(-1), W)
        /\ (call.op = "to_iloc" /\ "ilocs" \in DOMAIN result) =>
             LET other == to_iloc(self, call.ids, ~call.smaller_type, FALSE).ilocs
             IN  \A k \in 1..Len(call.ids) :
                   /\ call.ids[k] \notin Range(self._index) =>
                        /\ result.ilocs[k] = Sentinel(self, call.smaller_type)
                        /\ ~is_valid(self, result.ilocs[k])
                   /\ is_valid(self, result.ilocs[k]) = is_valid(self, other[k])
        /\ call.op = "is_valid" =>
             \A k \in 1..Len(call.ids) :
               result.valid[k] <=> call.ids[k] \in Range(self._index)

\* an index of 2^8 ids has flagged the compact ilocs of a query that holds a
\* missing id and the last id
C10_Witness ==
  /\ id_index # None /\ id_call # None
  /\ Len(Val(id_index)._index) = 2^8
  /\ Val(id_call).op = "is_valid" /\ Val(id_call).smaller_type
  /\ Val(id_call).ids = <<ExternalId(-1), ExternalId(2^8 - 1)>>
  /\ Val(id_result) = [valid |-> <<FALSE, TRUE>>]

-----------------------------------------------------------------------------
(* NodeData *)

\* a features call on a type of the collection has returned or raised
FeaturesAsked ==
  /\ element # None /\ element_call # None
  /\ Val(element_call).op = "features"
  /\ Val(element_call).type_name \in DOMAIN Val(element)._type_element_ilocs

\* what the contract of features says of the call: the row g - start of the
\* type's matrix for a global iloc g in the type's range, the "unknown IDs"
\* ValueError for any other g
FeatureSliceAnswered ==
  LET self == Val(element)
      call == Val(element_call)
      result == Val(element_result)
      r == self._type_element_ilocs[call.type_name]
      g == np_value(call.id_ilocs.ilocs[1])
  IN  IF InRange(g, r)
        THEN /\ call.type_name \in DOMAIN self._features
             /\ result =
                  [rows |-> <<self._features[call.type_name].rows[g - r.start + 1]>>]
        ELSE result = ValueError

-----------------------------------------------------------------------------
(* Negative node ilocs *)

\* the call raised instead of returning
Raised(result) == "error" \in DOMAIN result

NegativeIlocs == (-MaxNodes)..(-1)

\* C12: an adjacency lookup with a negative node iloc fails: adj[i] raises for
\* every i < 0 on every view, and edge_ilocs(node_iloc, ins, outs) with
\* node_iloc < 0 raises for every direction, without an other node type and
\* with any other node type, one that never occurs as an other endpoint
\* included.
C12_NegativeIlocFails ==
  \A node_iloc \in NegativeIlocs, ins, outs \in BOOLEAN :
    /\ (~ins /\ ~outs) =>
         \A other \in {None} \cup {Some(t) : t \in NodeTypeCodes} :
           Raised(edge_ilocs(node_iloc, ins, outs, other))
    /\ ((ins \/ outs) /\ adj_returned(ins, outs) # None) =>
         /\ Raised(getitem(Val(adj_returned(ins, outs)), node_iloc))
         /\ Raised(edge_ilocs(node_iloc, ins, outs, None))
    /\ ((ins \/ outs) /\ adj_by_type_returned(ins, outs) # None) =>
         /\ \A t \in DOMAIN Val(adj_by_type_returned(ins, outs)) :
              Raised(getitem(Val(adj_by_type_returned(ins, outs))[t], node_iloc))
         /\ \A t \in NodeTypeCodes :
              Raised(edge_ilocs(node_iloc, ins, outs, Some(t)))

-----------------------------------------------------------------------------
(* The order of the edges within a group *)

\* flat holds every edge iloc once, ordered by key and, for equal keys, by
\* ascending edge iloc
IsStableSortBy(flat, keys) ==
  /\ Len(flat) = Len(keys)
  /\ Range(flat) = EdgeIlocSet
  /\ \A k, l \in 1..Len(flat) :
       k < l => \/ keys[flat[k] + 1] < keys[flat[l] + 1]
                \/ /\ keys[flat[k] + 1] = keys[flat[l] + 1]
                   /\ flat[k] < flat[l]

\* the edge ilocs of the slice ascend
Ascending(result) ==
  \A k, l \in 1..Len(result.ilocs) : k < l => result.ilocs[k] < result.ilocs[l]

\* C13: the flat array of the out view is the stable sort of the edge ilocs by
\* source, and that of the in view by target: within every node's group, and
\* within every node's group by other node type, the edge ilocs ascend, for
\* every input, parallel edges and self-loops included.
C13_StableOrder ==
  /\ _edges_out_dict # None =>
       /\ IsStableSortBy(Val(_edges_out_dict).flat, sources)
       /\ \A n \in NodeIlocs : Ascending(getitem(Val(_edges_out_dict), n))
  /\ _edges_in_dict # None =>
       /\ IsStableSortBy(Val(_edges_in_dict).flat, targets)
       /\ \A n \in NodeIlocs : Ascending(getitem(Val(_edges_in_dict), n))
  /\ _edges_out_dict_by_other_node_type # None =>
       \A n \in NodeIlocs, t \in NodeTypeCodes :
         Ascending(edge_ilocs(n, FALSE, TRUE, Some(t)))
  /\ _edges_in_dict_by_other_node_type # None =>
       \A n \in NodeIlocs, t \in NodeTypeCodes :
         Ascending(edge_ilocs(n, TRUE, FALSE, Some(t)))

=============================================================================
